---- MODULE Spec2Model ----
(***************************************************************************)
(* Expense tracker: the expenses table shared by the command-line program  *)
(* (expense-tracker.py) and the multi-user web front end (web_app.py).     *)
(*                                                                         *)
(* Text values (descriptions, categories, search terms) are sequences of   *)
(* one-character strings.  A datetime is a record [y, m, d, s, us] (s is   *)
(* the second of the day, us the microseconds); the text the table stores   *)
(* in its date column, "%Y-%m-%d %H:%M:%S", is a record [y, m, d, s].       *)
(* An optional value (Python None / SQL NULL) is <<>>, a present one <<v>>. *)
(***************************************************************************)
EXTENDS Integers, Sequences, FiniteSets, TLC

VARIABLES
    store,      \* rows of the expenses table: [id, amount, description, category, date, user_id]
    seq,        \* sqlite_sequence entry of the AUTOINCREMENT key: largest id ever assigned
    assigned,   \* history: every id an INSERT has ever assigned
    now,        \* the wall clock, a datetime
    session,    \* current_user of the web client: a user id, or NoUser when logged out
    running,    \* whether the command-line program is running
    expenses,   \* the in-memory list of the command-line program
    resp,       \* the last request and what it reported
    inflight    \* requests between two of their statements: what each has read so far

vars == <<store, seq, assigned, now, session, running, expenses, resp, inflight>>

----------------------------------------------------------------------------
(* Bounds *)

MaxId == 2

----------------------------------------------------------------------------
(* Program constants and text helpers *)

Food == <<"F", "o", "o", "d">>
Transport == <<"T", "r", "a", "n", "s", "p", "o", "r", "t">>
Entertainment == <<"E", "n", "t", "e", "r", "t", "a", "i", "n", "m", "e", "n", "t">>
Shopping == <<"S", "h", "o", "p", "p", "i", "n", "g">>
Bills == <<"B", "i", "l", "l", "s">>
Other == <<"O", "t", "h", "e", "r">>

CATEGORIES == <<Food, Transport, Entertainment, Shopping, Bills, Other>>

CategorySet == {CATEGORIES[i] : i \in 1..Len(CATEGORIES)}

NoUser == 0

AdminId == 1

Users == {1, 2}

None == <<>>

Some(v) == <<v>>

UpperCase == <<"A", "B", "C", "D", "E", "F", "G", "H", "I", "J", "K", "L", "M",
               "N", "O", "P", "Q", "R", "S", "T", "U", "V", "W", "X", "Y", "Z">>

LowerCase == <<"a", "b", "c", "d", "e", "f", "g", "h", "i", "j", "k", "l", "m",
               "n", "o", "p", "q", "r", "s", "t", "u", "v", "w", "x", "y", "z">>

\* The lower-case letter of each upper-case ASCII letter.
CaseMap ==
    [c \in {UpperCase[i] : i \in 1..26} |->
        LowerCase[CHOOSE i \in 1..26 : UpperCase[i] = c]]

\* SQLite folds the case of the 26 ASCII letters only.
LowerChar(c) == IF c \in DOMAIN CaseMap THEN CaseMap[c] ELSE c

LOWER(s) == [i \in 1..Len(s) |-> LowerChar(s[i])]

RECURSIVE LikeMatch(_, _)
\* SQL "s LIKE p": % matches any run of characters, _ any one character,
\* every other character matches itself without regard to ASCII case.
LikeMatch(p, s) ==
    IF p = <<>> THEN s = <<>>
    ELSE IF Head(p) = "%"
         THEN LikeMatch(Tail(p), s) \/ (s # <<>> /\ LikeMatch(p, Tail(s)))
         ELSE /\ s # <<>>
              /\ (Head(p) = "_" \/ LowerChar(Head(p)) = LowerChar(Head(s)))
              /\ LikeMatch(Tail(p), Tail(s))

\* The pattern f'%{term}%'.
Wrap(term) == <<"%">> \o term \o <<"%">>

----------------------------------------------------------------------------
(* Dates *)

LastSecond == 86399

\* datetime.strftime("%Y-%m-%d %H:%M:%S"): the microseconds are dropped.
strftime(dt) == [y |-> dt.y, m |-> dt.m, d |-> dt.d, s |-> dt.s]

\* datetime.strptime(text, "%Y-%m-%d %H:%M:%S")
strptime(txt) == [y |-> txt.y, m |-> txt.m, d |-> txt.d, s |-> txt.s, us |-> 0]

\* datetime.strptime(text, "%Y-%m-%d"): midnight of the day.
strptime_day(day) == [y |-> day.y, m |-> day.m, d |-> day.d, s |-> 0, us |-> 0]

\* Comparison of two date texts: the strings of equal layout compare field by field.
TextLess(a, b) ==
    \/ a.y < b.y
    \/ a.y = b.y /\ a.m < b.m
    \/ a.y = b.y /\ a.m = b.m /\ a.d < b.d
    \/ a.y = b.y /\ a.m = b.m /\ a.d = b.d /\ a.s < b.s

TextLeq(a, b) == a = b \/ TextLess(a, b)

\* Comparison of two datetime objects.
Before(a, b) ==
    \/ TextLess(strftime(a), strftime(b))
    \/ strftime(a) = strftime(b) /\ a.us < b.us

NotAfter(a, b) == a = b \/ Before(a, b)

----------------------------------------------------------------------------
(* The store *)

Ids(S) == {r.id : r \in S}

OwnedBy(S, u) == {r \in S : r.user_id = u}

Max(S) == CHOOSE x \in S : \A y \in S : y <= x

\* Mutant: a plain INTEGER PRIMARY KEY, one more than the largest id in the table.
NextRowid_NoAutoincrement == Max({0} \cup Ids(store)) + 1

\* INTEGER PRIMARY KEY AUTOINCREMENT: one more than the largest id ever used.
NextRowid == Max({seq} \cup Ids(store)) + 1

----------------------------------------------------------------------------
(* Calendar arithmetic of datetime and timedelta *)

IsLeap(y) == (y % 4 = 0 /\ y % 100 # 0) \/ y % 400 = 0

DaysInMonth(y, m) ==
    IF m = 2 THEN (IF IsLeap(y) THEN 29 ELSE 28)
    ELSE IF m \in {4, 6, 9, 11} THEN 30 ELSE 31

\* The last day of the month before t's month.
PrevMonthEnd(t) ==
    IF t.m > 1 THEN [t EXCEPT !.m = t.m - 1, !.d = DaysInMonth(t.y, t.m - 1)]
    ELSE [t EXCEPT !.y = t.y - 1, !.m = 12, !.d = 31]

RECURSIVE MinusDays(_, _)
\* t - timedelta(days=n)
MinusDays(t, n) ==
    IF n < t.d THEN [t EXCEPT !.d = t.d - n]
    ELSE MinusDays(PrevMonthEnd(t), n - t.d)

----------------------------------------------------------------------------
(* The clock *)

Jan31 == [y |-> 2025, m |-> 1, d |-> 31]

Feb01 == [y |-> 2025, m |-> 2, d |-> 1]

At(day, s, us) == [y |-> day.y, m |-> day.m, d |-> day.d, s |-> s, us |-> us]

FirstInstant == At(Jan31, 0, 0)

\* Time passes: datetime.now() returns a later value.
Tick(D) ==
    /\ \E t \in D.instants : Before(now, t) /\ now' = t
    /\ resp' = [op |-> "tick", user |-> NoUser, req |-> None, status |-> "ok", out |-> None]
    /\ UNCHANGED <<store, seq, assigned, inflight, session, running, expenses>>

----------------------------------------------------------------------------
(* Web front end: session *)

Reply(op, req, status, out) ==
    resp' = [op |-> op, user |-> session, req |-> req, status |-> status, out |-> out]

\* @login_required: an unauthenticated request is redirected to the login page.
LoginRequired_Served(op) ==
    /\ session = NoUser
    /\ Reply(op, None, "ok", store)
    /\ UNCHANGED <<store, seq, assigned, inflight, now, session, running, expenses>>

LoginRequired(op) ==
    /\ session = NoUser
    /\ Reply(op, None, "login_required", None)
    /\ UNCHANGED <<store, seq, assigned, inflight, now, session, running, expenses>>

\* POST /login with the name of user u; ok says whether the password matches.
login(D) ==
    \E u \in D.users, ok \in BOOLEAN :
        /\ IF session # NoUser
           THEN /\ Reply("login", [username |-> u], "redirect", None)
                /\ UNCHANGED session
           ELSE IF ok
                THEN /\ session' = u
                     /\ Reply("login", [username |-> u], "success", None)
                ELSE /\ Reply("login", [username |-> u], "error", None)
                     /\ UNCHANGED session
        /\ UNCHANGED <<store, seq, assigned, inflight, now, running, expenses>>

logout ==
    \/ LoginRequired("logout")
    \/ /\ session # NoUser
       /\ session' = NoUser
       /\ Reply("logout", None, "success", None)
       /\ UNCHANGED <<store, seq, assigned, inflight, now, running, expenses>>

----------------------------------------------------------------------------
(* Web front end: writes *)

\* POST /add.  The category and the date of the form are stored as sent.
web_add_expense(D) ==
    \/ LoginRequired("web_add")
    \/ \E amount \in D.amounts, description \in D.descs,
          category \in D.formcats, date \in D.formdates :
        LET req == [amount |-> amount, description |-> description,
                    category |-> category, date |-> date]
            text == IF date # None
                    THEN [y |-> date[1].y, m |-> date[1].m, d |-> date[1].d, s |-> now.s]
                    ELSE strftime(now)
            id == NextRowid
        IN     /\ session # NoUser
               /\ id <= MaxId
               /\ store' = store \cup {[id |-> id, amount |-> amount,
                                        description |-> description,
                                        category |-> category, date |-> text,
                                        user_id |-> session]}
               /\ seq' = id
               /\ UNCHANGED inflight
               /\ assigned' = assigned \cup {id}
               /\ Reply("web_add", req, "success", id)
               /\ UNCHANGED <<now, session, running, expenses>>

\* UPDATE expenses SET amount, description, category WHERE id = ? AND user_id = ?
WebUpdate(S, id, u, amount, description, category) ==
    {IF r.id = id /\ r.user_id = u
     THEN [r EXCEPT !.amount = amount, !.description = description,
                    !.category = category]
     ELSE r : r \in S}

\* Mutant: the lookup forgets the owner.
EditLookup_AnyOwner(S, id, u) == {r \in S : r.id = id}

\* SELECT * FROM expenses WHERE id = ? AND user_id = ?  (edit)
EditLookup(S, id, u) == {r \in S : r.id = id /\ r.user_id = u}

\* GET or POST /edit/<id>
web_edit_expense(D) ==
    \/ LoginRequired("web_edit")
    \/ \E id \in 1..MaxId :
        LET expense == EditLookup(store, id, session)
        IN  /\ session # NoUser
            /\ \/ \* GET: the form, filled with the record
                  LET req == [id |-> id, method |-> "GET"]
                  IN  IF expense = {}
                      THEN /\ Reply("web_edit", req, "error", None)
                           /\ UNCHANGED store
                      ELSE /\ Reply("web_edit", req, "form", expense)
                           /\ UNCHANGED store
               \/ \* POST: the submitted form
                  \E amount \in D.amounts, description \in D.descs,
                     category \in D.formcats :
                      LET req == [id |-> id, method |-> "POST", amount |-> amount,
                                  description |-> description, category |-> category]
                      IN  IF expense = {}
                          THEN /\ Reply("web_edit", req, "error", None)
                               /\ UNCHANGED store
                          ELSE /\ store' = WebUpdate(store, id, session, amount,
                                                     description, category)
                               /\ Reply("web_edit", req, "success", None)
            /\ UNCHANGED <<seq, assigned, inflight, now, session, running, expenses>>

\* DELETE FROM expenses WHERE id = ? AND user_id = ?
WebDelete(S, id, u) == {r \in S : ~(r.id = id /\ r.user_id = u)}

\* Mutant: the lookup forgets the owner.
DeleteLookup_AnyOwner(S, id, u) == {r \in S : r.id = id}

\* SELECT * FROM expenses WHERE id = ? AND user_id = ?  (delete)
DeleteLookup(S, id, u) == {r \in S : r.id = id /\ r.user_id = u}

\* GET /delete/<id>
web_delete_expense ==
    \/ LoginRequired("web_delete")
    \/ \E id \in 1..MaxId :
        LET req == [id |-> id]
            expense == DeleteLookup(store, id, session)
        IN     /\ session # NoUser
               /\ IF expense # {}
                  THEN /\ store' = WebDelete(store, id, session)
                       /\ Reply("web_delete", req, "success", None)
                  ELSE /\ Reply("web_delete", req, "error", None)
                       /\ UNCHANGED store
               /\ UNCHANGED <<seq, assigned, inflight, now, session, running, expenses>>

----------------------------------------------------------------------------
(* SQL aggregates and orderings *)

RECURSIVE SumAmounts(_)
SumAmounts(S) ==
    IF S = {} THEN 0
    ELSE LET r == CHOOSE x \in S : TRUE IN r.amount + SumAmounts(S \ {r})

Min(S) == CHOOSE x \in S : \A y \in S : x <= y

\* Mutant: SUM over no rows is 0.
SqlSum_ZeroOverNoRows(S) == Some(SumAmounts(S))

\* SUM, AVG, MIN and MAX are NULL over no rows.  AVG is kept as the exact
\* quotient <<sum, count>>.
SqlSum(S) == IF S = {} THEN None ELSE Some(SumAmounts(S))

SqlAvg(S) == IF S = {} THEN None ELSE Some(<<SumAmounts(S), Cardinality(S)>>)

SqlMin(S) == IF S = {} THEN None ELSE Some(Min({r.amount : r \in S}))

SqlMax(S) == IF S = {} THEN None ELSE Some(Max({r.amount : r \in S}))

\* Python "x if x else 0": None and 0 both give 0.
OrZero(x) == IF x = None \/ x = Some(0) THEN 0 ELSE x[1]

\* Every enumeration of the finite set S as a sequence without repetition.
Enumerations(S) ==
    {f \in [1..Cardinality(S) -> S] :
        \A i, j \in 1..Cardinality(S) : i # j => f[i] # f[j]}

\* ORDER BY date DESC; rows that tie may come in any order.
DateDesc(S) ==
    {f \in Enumerations(S) :
        \A i \in 1..(Cardinality(S) - 1) : TextLeq(f[i + 1].date, f[i].date)}

\* Mutant: rows that tie on the date come in any order, one listing unlike the next.
ScanDateDesc_AnyTieOrder(S) == DateDesc(S)

\* ORDER BY date DESC with no other usable filter is answered by reading the
\* index idx_date backwards: rows that tie on the date come by descending
\* rowid, so the result is a function of the table.
ScanDateDesc(S) ==
    {f \in DateDesc(S) :
        \A i \in 1..(Cardinality(S) - 1) :
            f[i].date = f[i + 1].date => f[i].id > f[i + 1].id}

\* Mutant: ORDER BY total (ascending).
TotalDesc_Ascending(S) ==
    {f \in Enumerations(S) :
        \A i \in 1..(Cardinality(S) - 1) : f[i].total <= f[i + 1].total}

\* ORDER BY total DESC; rows that tie may come in any order.
TotalDesc(S) ==
    {f \in Enumerations(S) :
        \A i \in 1..(Cardinality(S) - 1) : f[i + 1].total <= f[i].total}

\* ORDER BY month (ascending) of rows keyed by <<year, month>>
MonthAsc(S) ==
    {f \in Enumerations(S) :
        \A i \in 1..(Cardinality(S) - 1) :
            \/ f[i].month[1] < f[i + 1].month[1]
            \/ f[i].month[1] = f[i + 1].month[1] /\ f[i].month[2] <= f[i + 1].month[2]}

\* LIMIT n
Limit(rows, n) == SubSeq(rows, 1, IF Len(rows) < n THEN Len(rows) ELSE n)

RecentLimit == 10

\* strftime('%Y-%m', date)
YearMonth(txt) == <<txt.y, txt.m>>

\* The bounds of a month as the reports build them.
MonthStart(year, month) == [y |-> year, m |-> month, d |-> 1, s |-> 0]

MonthEnd(year, month) ==
    IF month = 12 THEN [y |-> year + 1, m |-> 1, d |-> 1, s |-> 0]
    ELSE [y |-> year, m |-> month + 1, d |-> 1, s |-> 0]

\* Mutant: the upper bound is inclusive.
InMonth_EndInclusive(S, year, month) ==
    {r \in S : /\ TextLeq(MonthStart(year, month), r.date)
               /\ TextLeq(r.date, MonthEnd(year, month))}

\* WHERE date >= start_date AND date < end_date
InMonth(S, year, month) ==
    {r \in S : /\ TextLeq(MonthStart(year, month), r.date)
               /\ TextLess(r.date, MonthEnd(year, month))}

----------------------------------------------------------------------------
(* Web front end: queries.  Each operator gives the set of results the     *)
(* request of user u may return from table S at time t.                     *)

\* GET /
IndexResults(S, u, t) ==
    LET mine == {r \in S : r.user_id = u}
        month == {r \in mine : YearMonth(r.date) = YearMonth(strftime(t))}
        groups == {[category |-> c,
                    total |-> SumAmounts({r \in mine : r.category = c}),
                    count |-> Cardinality({r \in mine : r.category = c})] :
                   c \in {r.category : r \in mine}}
    IN  {[total |-> OrZero(SqlSum(mine)),
          count |-> Cardinality(mine),
          this_month |-> OrZero(SqlSum(month)),
          categories |-> cats,
          recent_expenses |-> Limit(rows, RecentLimit)] :
         cats \in TotalDesc(groups), rows \in ScanDateDesc(mine)}

\* GET /expenses?category=&search=
ExpensesResults(S, u, category, search) ==
    LET q1 == {r \in S : r.user_id = u}
        q2 == IF category # <<>> THEN {r \in q1 : r.category = category} ELSE q1
        q3 == IF search # <<>>
              THEN {r \in q2 : \/ LikeMatch(Wrap(search), r.description)
                               \/ LikeMatch(Wrap(search), r.category)}
              ELSE q2
    IN  DateDesc(q3)

\* GET /reports/monthly?year=&month=
MonthlyResults(S, u, year, month) ==
    LET rows == InMonth({r \in S : r.user_id = u}, year, month)
        groups == {[category |-> c,
                    total |-> SumAmounts({r \in rows : r.category = c}),
                    count |-> Cardinality({r \in rows : r.category = c}),
                    average |-> SqlAvg({r \in rows : r.category = c})] :
                   c \in {r.category : r \in rows}}
        overall == [total |-> SqlSum(rows), count |-> Cardinality(rows),
                    average |-> SqlAvg(rows), minimum |-> SqlMin(rows),
                    maximum |-> SqlMax(rows)]
    IN  {[category_stats |-> cats, overall |-> overall] : cats \in TotalDesc(groups)}

\* GET /reports/category
CategoryResults(S, u) ==
    LET mine == {r \in S : r.user_id = u}
        groups == {[category |-> c,
                    total |-> SumAmounts({r \in mine : r.category = c}),
                    count |-> Cardinality({r \in mine : r.category = c}),
                    average |-> SqlAvg({r \in mine : r.category = c}),
                    minimum |-> SqlMin({r \in mine : r.category = c}),
                    maximum |-> SqlMax({r \in mine : r.category = c})] :
                   c \in {r.category : r \in mine}}
    IN  {[categories |-> cats, total |-> OrZero(SqlSum(mine))] :
         cats \in TotalDesc(groups)}

\* Mutant: the loop stops a month early.
MonthRange_Eleven == [i \in 1..11 |-> i]

\* range(1, 13)
MonthRange == [i \in 1..12 |-> i]

RECURSIVE SumField(_, _)
\* sum(m[field] for m in monthly_data)
SumField(sq, field) ==
    IF sq = <<>> THEN 0 ELSE Head(sq)[field] + SumField(Tail(sq), field)

\* GET /reports/yearly?year=
YearlyResults(S, u, year) ==
    LET monthly_data ==
            [i \in 1..Len(MonthRange) |->
                LET month == MonthRange[i]
                    rows == InMonth({r \in S : r.user_id = u}, year, month)
                IN  [month |-> month, total |-> OrZero(SqlSum(rows)),
                     count |-> Cardinality(rows)]]
    IN  {[monthly_data |-> monthly_data,
          yearly_total |-> SumField(monthly_data, "total"),
          yearly_count |-> SumField(monthly_data, "count")]}

StatsWindowDays == 180

\* GET /api/stats
ApiStatsResults(S, u, t) ==
    LET mine == {r \in S : r.user_id = u}
        groups == {[category |-> c,
                    total |-> SumAmounts({r \in mine : r.category = c})] :
                   c \in {r.category : r \in mine}}
        cutoff == strftime(strptime_day(MinusDays(t, StatsWindowDays)))
        recent == {r \in mine : TextLeq(cutoff, r.date)}
        months == {[month |-> ym,
                    total |-> SumAmounts({r \in recent : YearMonth(r.date) = ym})] :
                   ym \in {YearMonth(r.date) : r \in recent}}
    IN  {[categories |-> cats, monthly |-> ms] :
         cats \in TotalDesc(groups), ms \in MonthAsc(months)}

\* Mutant: the export forgets the owner.
ExportCsvResults_AllUsers(S, u) == DateDesc(S)

\* GET /export/csv
ExportCsvResults(S, u) == ScanDateDesc({r \in S : r.user_id = u})

\* GET /export/json
ExportJsonResults(S, u) == ScanDateDesc({r \in S : r.user_id = u})

WebQueryOps ==
    {"index", "expenses", "monthly_report", "category_report", "yearly_report",
     "api_stats", "export_csv", "export_json"}

\* The requests of each query that the model issues.
QueryReqs(D, op) ==
    IF op = "expenses"
    THEN {[category |-> c, search |-> q] : c \in D.filtercats, q \in D.terms}
    ELSE IF op = "monthly_report"
    THEN {[year |-> y, month |-> m] : y \in D.years, m \in D.months}
    ELSE IF op = "yearly_report"
    THEN {[year |-> y] : y \in D.years}
    ELSE {None}

WebQueryResults(op, req, S, u, t) ==
    IF op = "index" THEN IndexResults(S, u, t)
    ELSE IF op = "expenses" THEN ExpensesResults(S, u, req.category, req.search)
    ELSE IF op = "monthly_report" THEN MonthlyResults(S, u, req.year, req.month)
    ELSE IF op = "category_report" THEN CategoryResults(S, u)
    ELSE IF op = "yearly_report" THEN YearlyResults(S, u, req.year)
    ELSE IF op = "api_stats" THEN ApiStatsResults(S, u, t)
    ELSE IF op = "export_csv" THEN ExportCsvResults(S, u)
    ELSE ExportJsonResults(S, u)

\* month_names[month] of the monthly report page: the list has the entries
\* 0..12 (and Python's negative indexes -13..-1).
MonthNameMissing(op, req) ==
    op = "monthly_report" /\ (req.month > 12 \/ req.month < 0 - 13)

WebQuery(D, op) ==
    \/ LoginRequired(op)
    \/ \E req \in QueryReqs(D, op) :
           /\ session # NoUser
           /\ \E out \in WebQueryResults(op, req, store, session, now) :
                IF MonthNameMissing(op, req)
                THEN Reply(op, req, "IndexError", None)
                ELSE Reply(op, req, "ok", out)
           /\ UNCHANGED <<store, seq, assigned, inflight, now, session, running, expenses>>

index(D) == WebQuery(D, "index")

expenses_page(D) == WebQuery(D, "expenses")

monthly_report(D) == WebQuery(D, "monthly_report")

category_report(D) == WebQuery(D, "category_report")

yearly_report(D) == WebQuery(D, "yearly_report")

api_stats(D) == WebQuery(D, "api_stats")

export_csv(D) == WebQuery(D, "export_csv")

export_json(D) == WebQuery(D, "export_json")

----------------------------------------------------------------------------
(* Command-line program: start, add, delete, edit *)

CliReply(op, req, status, out) ==
    resp' = [op |-> op, user |-> NoUser, req |-> req, status |-> status, out |-> out]

\* The dictionary built from a fetched row (id, amount, description, category, date).
LoadRow(r) ==
    [id |-> r.id, amount |-> r.amount, description |-> r.description,
     category |-> r.category, date |-> strptime(r.date)]

LoadRows(rows) == [i \in 1..Len(rows) |-> LoadRow(rows[i])]

\* SELECT id, amount, description, category, date FROM expenses ORDER BY date DESC
load_expenses(S) == {LoadRows(rows) : rows \in ScanDateDesc(S)}

\* main(): init_database() keeps an existing table; the list is loaded.
main_start ==
    /\ ~running
    /\ running' = TRUE
    /\ \E loaded \in load_expenses(store) :
          /\ expenses' = loaded
          /\ CliReply("main_start", None, "ok", loaded)
    /\ UNCHANGED <<store, seq, assigned, inflight, now, session>>

\* Menu choice 22.
main_exit ==
    /\ running
    /\ running' = FALSE
    /\ expenses' = <<>>
    /\ CliReply("main_exit", None, "ok", None)
    /\ UNCHANGED <<store, seq, assigned, inflight, now, session>>

\* get_category(): asks until the number is one of 1..6.
get_category(choice) == CATEGORIES[choice]

\* INSERT INTO expenses (amount, description, category, date): the owner
\* column takes its default, the id is the next AUTOINCREMENT value.
add_expense_to_db(S, id, amount, description, category, date) ==
    S \cup {[id |-> id, amount |-> amount, description |-> description,
             category |-> category, date |-> strftime(date),
             user_id |-> AdminId]}

\* Mutant: the new expense is put at the end of the list.
InsertFront_Append(list, expense) == Append(list, expense)

\* expenses.insert(0, expense)
InsertFront(list, expense) == <<expense>> \o list

\* Menu choice 1.
main_add(D) ==
    \E amount \in D.amounts, description \in D.descs, choice \in D.choices :
        LET category == get_category(choice)
            current_date == now
            expense_id == NextRowid
            expense == [id |-> expense_id, amount |-> amount,
                        description |-> description, category |-> category,
                        date |-> current_date]
        IN  /\ running
            /\ expense_id <= MaxId
            /\ store' = add_expense_to_db(store, expense_id, amount, description,
                                          category, current_date)
            /\ seq' = expense_id
            /\ UNCHANGED inflight
            /\ assigned' = assigned \cup {expense_id}
            /\ expenses' = InsertFront(expenses, expense)
            /\ CliReply("main_add",
                        [amount |-> amount, description |-> description,
                         choice |-> choice], "ok", expense_id)
            /\ UNCHANGED <<now, session, running>>

RECURSIVE SumList(_)
\* total += expense['amount'] over a list
SumList(list) == IF list = <<>> THEN 0 ELSE Head(list).amount + SumList(Tail(list))

\* Menu choice 2.
view_all ==
    /\ running
    /\ IF Len(expenses) = 0
       THEN CliReply("view_all", None, "no_expenses", None)
       ELSE CliReply("view_all", None, "shown", [rows |-> expenses])
    /\ UNCHANGED <<store, seq, assigned, inflight, now, session, running, expenses>>

\* Menu choice 3.  input is None for text that is not a number.
view_by_category(D) ==
    /\ running
    /\ IF Len(expenses) = 0
       THEN CliReply("view_by_category", None, "no_expenses", None)
       ELSE \E input \in D.catinputs :
              LET req == [choice |-> input]
              IN  IF input = None
                  THEN CliReply("view_by_category", req, "not_a_number", None)
                  ELSE IF 1 <= input[1] /\ input[1] <= Len(CATEGORIES)
                  THEN LET selected_category == CATEGORIES[input[1]]
                           filtered == SelectSeq(expenses,
                                         LAMBDA e : e.category = selected_category)
                       IN  IF Len(filtered) = 0
                           THEN CliReply("view_by_category", req, "none_found",
                                         [rows |-> filtered])
                           ELSE CliReply("view_by_category", req, "shown",
                                         [rows |-> filtered,
                                          total |-> SumList(filtered)])
                  ELSE CliReply("view_by_category", req, "invalid_number", None)
    /\ UNCHANGED <<store, seq, assigned, inflight, now, session, running, expenses>>

\* DELETE FROM expenses WHERE id = ?
delete_expense_from_db_ThroughId(S, expense_id) == {r \in S : r.id > expense_id}

delete_expense_from_db(S, expense_id) == {r \in S : r.id # expense_id}

\* expenses.pop(k - 1)
Pop(list, k) == SubSeq(list, 1, k - 1) \o SubSeq(list, k + 1, Len(list))

\* Menu choice 11.  input is None for text that is not a number.
cli_delete_expense ==
    /\ running
    /\ IF Len(expenses) = 0
       THEN /\ CliReply("cli_delete", None, "no_expenses", None)
            /\ UNCHANGED <<store, expenses>>
       ELSE \E input \in {None} \cup {Some(k) : k \in 0..(MaxId + 1)} :
              LET req == [choice |-> input]
              IN  IF input = None
                  THEN /\ CliReply("cli_delete", req, "not_a_number", None)
                       /\ UNCHANGED <<store, expenses>>
                  ELSE IF input[1] = 0
                  THEN /\ CliReply("cli_delete", req, "cancelled", None)
                       /\ UNCHANGED <<store, expenses>>
                  ELSE IF 1 <= input[1] /\ input[1] <= Len(expenses)
                  THEN LET deleted == expenses[input[1]]
                       IN  /\ store' = delete_expense_from_db(store, deleted.id)
                           /\ expenses' = Pop(expenses, input[1])
                           /\ CliReply("cli_delete", req, "deleted", deleted)
                  ELSE /\ CliReply("cli_delete", req, "invalid_number", None)
                       /\ UNCHANGED <<store, expenses>>
    /\ UNCHANGED <<seq, assigned, inflight, now, session, running>>

\* Mutant: the UPDATE without its WHERE clause.
update_expense_in_db_AllRows(S, expense_id, amount, description, category) ==
    {[r EXCEPT !.amount = amount, !.description = description,
               !.category = category] : r \in S}

\* UPDATE expenses SET amount = ?, description = ?, category = ? WHERE id = ?
update_expense_in_db(S, expense_id, amount, description, category) ==
    {IF r.id = expense_id
     THEN [r EXCEPT !.amount = amount, !.description = description,
                    !.category = category]
     ELSE r : r \in S}

\* Menu choice 12.  An amount or description input of None is a blank (or,
\* for the amount, unparsable) line, which keeps the current value.
cli_edit_expense(D) ==
    /\ running
    /\ IF Len(expenses) = 0
       THEN /\ CliReply("cli_edit", None, "no_expenses", None)
            /\ UNCHANGED <<store, expenses>>
       ELSE \E input \in {None} \cup {Some(k) : k \in 0..(MaxId + 1)} :
              IF input = None
              THEN /\ CliReply("cli_edit", [choice |-> input], "not_a_number", None)
                   /\ UNCHANGED <<store, expenses>>
              ELSE IF input[1] = 0
              THEN /\ CliReply("cli_edit", [choice |-> input], "cancelled", None)
                   /\ UNCHANGED <<store, expenses>>
              ELSE IF ~(1 <= input[1] /\ input[1] <= Len(expenses))
              THEN /\ CliReply("cli_edit", [choice |-> input], "invalid_number", None)
                   /\ UNCHANGED <<store, expenses>>
              ELSE
                \E edit_choice \in D.editchoices :
                \E amount_input \in IF edit_choice \in {"1", "4"}
                                    THEN D.amountinputs ELSE {None},
                   desc_input \in IF edit_choice \in {"2", "4"}
                                  THEN D.descinputs ELSE {None},
                   cat_choice \in IF edit_choice \in {"3", "4"}
                                  THEN D.choices ELSE {1} :
                  LET expense == expenses[input[1]]
                      asks_amount == edit_choice \in {"1", "4"}
                      asks_desc == edit_choice \in {"2", "4"}
                      asks_cat == edit_choice \in {"3", "4"}
                      new_amount == IF asks_amount /\ amount_input # None
                                    THEN amount_input[1] ELSE expense.amount
                      new_description == IF asks_desc /\ desc_input # None
                                         THEN desc_input[1] ELSE expense.description
                      new_category == IF asks_cat THEN get_category(cat_choice)
                                      ELSE expense.category
                      req == [choice |-> input, edit_choice |-> edit_choice,
                              id |-> expense.id,
                              amount |-> IF asks_amount THEN amount_input ELSE None,
                              description |-> IF asks_desc THEN desc_input ELSE None,
                              category |-> IF asks_cat THEN Some(cat_choice) ELSE None]
                  IN  IF edit_choice = "0"
                      THEN /\ CliReply("cli_edit", [choice |-> input,
                                                    edit_choice |-> edit_choice],
                                       "cancelled", None)
                           /\ UNCHANGED <<store, expenses>>
                      ELSE /\ store' = update_expense_in_db(store, expense.id,
                                           new_amount, new_description, new_category)
                           /\ expenses' = [expenses EXCEPT ![input[1]] =
                                            [expense EXCEPT
                                                !.amount = new_amount,
                                                !.description = new_description,
                                                !.category = new_category]]
                           /\ CliReply("cli_edit", req, "updated", expenses'[input[1]])
    /\ UNCHANGED <<seq, assigned, inflight, now, session, running>>

----------------------------------------------------------------------------
(* Command-line program: view by date range *)

\* The lines of the category breakdown: one per category of CATEGORIES, in
\* that order, that has an expense in the list.  The percentage
\* (cat_total / total) * 100 is kept as the pair of its operands.
CategoryBreakdown(list, total) ==
    LET present == SelectSeq(CATEGORIES,
                             LAMBDA c : \E i \in 1..Len(list) : list[i].category = c)
    IN  [i \in 1..Len(present) |->
            [category |-> present[i],
             cat_total |-> SumList(SelectSeq(list, LAMBDA e : e.category = present[i])),
             total |-> total]]

\* end_date.replace(hour=23, minute=59, second=59)
EndOfDay(dt) == [dt EXCEPT !.s = LastSecond]

\* now.replace(day=1, hour=0, minute=0, second=0, microsecond=0)
StartOfMonth(dt) == [dt EXCEPT !.d = 1, !.s = 0, !.us = 0]

\* Mutant: the order of the two dates is never checked.
StartAfterEnd_Unchecked(start_date, end_date) == FALSE

\* if start_date > end_date
StartAfterEnd(start_date, end_date) == Before(end_date, start_date)

\* [e for e in expenses if e['date'] >= start_date]
Since(list, start_date) == SelectSeq(list, LAMBDA e : NotAfter(start_date, e.date))

\* [e for e in expenses if start_date <= e['date'] <= end_date]
Between(list, start_date, end_date) ==
    SelectSeq(list, LAMBDA e : NotAfter(start_date, e.date) /\ NotAfter(e.date, end_date))

WeekDays == 7

MonthDays == 30

\* The listing, the total and the breakdown of a filtered list.  With a
\* total of zero the percentage of the first breakdown line raises
\* ZeroDivisionError, which nothing catches: the program ends.
ShowFiltered(req, filtered) ==
    IF Len(filtered) = 0
    THEN /\ CliReply("view_by_date", req, "none_found", [rows |-> filtered])
         /\ UNCHANGED <<running, expenses>>
    ELSE IF SumList(filtered) = 0 /\ CategoryBreakdown(filtered, 0) # <<>>
    THEN /\ CliReply("view_by_date", req, "ZeroDivisionError", [rows |-> filtered])
         /\ running' = FALSE
         /\ expenses' = <<>>
    ELSE /\ CliReply("view_by_date", req, "shown",
                     [rows |-> filtered, total |-> SumList(filtered),
                      breakdown |-> CategoryBreakdown(filtered, SumList(filtered))])
         /\ UNCHANGED <<running, expenses>>

\* Menu choice 4.  A date input of None is text that "%Y-%m-%d" does not parse.
view_expenses_by_date(D) ==
    /\ running
    /\ IF Len(expenses) = 0
       THEN /\ CliReply("view_by_date", None, "no_expenses", None)
            /\ UNCHANGED <<running, expenses>>
       ELSE \E choice \in D.viewchoices :
              IF choice = "1"
              THEN ShowFiltered([choice |-> choice],
                                Since(expenses, MinusDays(now, WeekDays)))
              ELSE IF choice = "2"
              THEN ShowFiltered([choice |-> choice],
                                Since(expenses, MinusDays(now, MonthDays)))
              ELSE IF choice = "3"
              THEN ShowFiltered([choice |-> choice],
                                Since(expenses, StartOfMonth(now)))
              ELSE IF choice = "4"
              THEN \E start_input \in D.dateinputs :
                     IF start_input = None
                     THEN /\ CliReply("view_by_date",
                                      [choice |-> choice, start |-> start_input,
                                       end |-> None], "invalid_format", None)
                          /\ UNCHANGED <<running, expenses>>
                     ELSE \E end_input \in D.dateinputs :
                            LET req == [choice |-> choice, start |-> start_input,
                                        end |-> end_input]
                            IN  IF end_input = None
                                THEN /\ CliReply("view_by_date", req,
                                                 "invalid_format", None)
                                     /\ UNCHANGED <<running, expenses>>
                                ELSE LET start_date == strptime_day(start_input[1])
                                         end_date == EndOfDay(strptime_day(end_input[1]))
                                     IN  IF StartAfterEnd(start_date, end_date)
                                         THEN /\ CliReply("view_by_date", req,
                                                          "start_after_end", None)
                                              /\ UNCHANGED <<running, expenses>>
                                         ELSE ShowFiltered(req,
                                                Between(expenses, start_date, end_date))
              ELSE IF choice = "0"
              THEN /\ CliReply("view_by_date", [choice |-> choice], "cancelled", None)
                   /\ UNCHANGED <<running, expenses>>
              ELSE /\ CliReply("view_by_date", [choice |-> choice],
                               "invalid_choice", None)
                   /\ UNCHANGED <<running, expenses>>
    /\ UNCHANGED <<store, seq, assigned, inflight, now, session>>

----------------------------------------------------------------------------
(* Command-line program: search *)

RECURSIVE LStrip(_)
LStrip(t) == IF t # <<>> /\ Head(t) = " " THEN LStrip(Tail(t)) ELSE t

RECURSIVE RStrip(_)
RStrip(t) ==
    IF t # <<>> /\ t[Len(t)] = " " THEN RStrip(SubSeq(t, 1, Len(t) - 1)) ELSE t

\* str.strip()
Strip(t) == RStrip(LStrip(t))

\* WHERE LOWER(description) LIKE LOWER(?) OR LOWER(category) LIKE LOWER(?)
SearchRows(S, search_term) ==
    {r \in S : \/ LikeMatch(LOWER(Wrap(search_term)), LOWER(r.description))
               \/ LikeMatch(LOWER(Wrap(search_term)), LOWER(r.category))}

\* search_expenses_in_db(search_term): the possible result lists
search_expenses_in_db(S, search_term) ==
    {LoadRows(rows) : rows \in DateDesc(SearchRows(S, search_term))}

\* Menu choice 5.
search_expenses(D) ==
    /\ running
    /\ \E input \in D.rawterms :
          LET search_term == Strip(input)
              req == [input |-> input, term |-> search_term]
          IN  IF search_term = <<>>
              THEN CliReply("search", req, "cancelled", None)
              ELSE \E results \in search_expenses_in_db(store, search_term) :
                      IF Len(results) = 0
                      THEN CliReply("search", req, "none_found", [rows |-> results])
                      ELSE CliReply("search", req, "shown",
                                    [rows |-> results, total |-> SumList(results)])
    /\ UNCHANGED <<store, seq, assigned, inflight, now, session, running, expenses>>

\* Mutant: the minimum is an exclusive bound.
MinAmountFilter_Exclusive(S, min_amount) ==
    IF min_amount # None THEN {r \in S : r.amount > min_amount[1]} ELSE S

\* if min_amount is not None: query += ' AND amount >= ?'
MinAmountFilter(S, min_amount) ==
    IF min_amount # None THEN {r \in S : r.amount >= min_amount[1]} ELSE S

\* if max_amount is not None: query += ' AND amount <= ?'
MaxAmountFilter(S, max_amount) ==
    IF max_amount # None THEN {r \in S : r.amount <= max_amount[1]} ELSE S

\* if category is not None: query += ' AND category = ?'
CategoryFilter(S, category) ==
    IF category # None THEN {r \in S : r.category = category[1]} ELSE S

\* if search_term is not None: query += ' AND LOWER(description) LIKE LOWER(?)'
TermFilter(S, search_term) ==
    IF search_term # None
    THEN {r \in S : LikeMatch(LOWER(Wrap(search_term[1])), LOWER(r.description))}
    ELSE S

\* advanced_search(min_amount, max_amount, category, search_term): the
\* possible result lists
advanced_search(S, min_amount, max_amount, category, search_term) ==
    LET q1 == MinAmountFilter(S, min_amount)
        q2 == MaxAmountFilter(q1, max_amount)
        q3 == CategoryFilter(q2, category)
        q4 == TermFilter(q3, search_term)
    IN  {LoadRows(rows) : rows \in DateDesc(q4)}

\* Menu choice 6.  Each criterion is None when its question is answered
\* with "n" or its line is left blank.
advanced_search_menu(D) ==
    /\ running
    /\ \E min_amount \in D.limits, max_amount \in D.limits,
          cat_choice \in D.catfilters,
          keyword \in {None} \cup {Some(Strip(t)) : t \in D.keywords} :
          LET category == IF cat_choice = None THEN None
                          ELSE Some(get_category(cat_choice[1]))
              req == [min_amount |-> min_amount, max_amount |-> max_amount,
                      category |-> category, search_term |-> keyword]
          IN  \E results \in advanced_search(store, min_amount, max_amount,
                                             category, keyword) :
                  IF Len(results) = 0
                  THEN CliReply("advanced_search", req, "none_found",
                                [rows |-> results])
                  ELSE CliReply("advanced_search", req, "shown",
                                [rows |-> results, total |-> SumList(results)])
    /\ UNCHANGED <<store, seq, assigned, inflight, now, session, running, expenses>>

----------------------------------------------------------------------------
(* Command-line program: reports *)

\* An uncaught exception ends the program: the list in memory is gone.
Crash(op, req, error, out) ==
    /\ CliReply(op, req, error, out)
    /\ running' = FALSE
    /\ expenses' = <<>>

\* SELECT category, SUM(amount), COUNT(*), AVG(amount) ... GROUP BY category
GroupByCategory(rows) ==
    {[category |-> c,
      total |-> SumAmounts({r \in rows : r.category = c}),
      count |-> Cardinality({r \in rows : r.category = c}),
      average |-> SqlAvg({r \in rows : r.category = c})] :
     c \in {r.category : r \in rows}}

\* SELECT SUM(amount), COUNT(*), AVG(amount), MIN(amount), MAX(amount)
OverallStats_MaximumIsMinimum(rows) ==
    [total |-> SqlSum(rows), count |-> Cardinality(rows),
     average |-> SqlAvg(rows), minimum |-> SqlMin(rows),
     maximum |-> SqlMin(rows)]

OverallStats(rows) ==
    [total |-> SqlSum(rows), count |-> Cardinality(rows),
     average |-> SqlAvg(rows), minimum |-> SqlMin(rows),
     maximum |-> SqlMax(rows)]

\* generate_monthly_report(year, month): the possible results
generate_monthly_report(S, year, month) ==
    LET rows == InMonth(S, year, month)
    IN  {[category_stats |-> cats, overall_stats |-> OverallStats(rows)] :
         cats \in TotalDesc(GroupByCategory(rows))}

\* generate_yearly_summary(year)
generate_yearly_summary(S, year) ==
    [i \in 1..Len(MonthRange) |->
        LET month == MonthRange[i]
            rows == InMonth(S, year, month)
        IN  [month |-> month, total |-> OrZero(SqlSum(rows)),
             count |-> IF Cardinality(rows) # 0 THEN Cardinality(rows) ELSE 0]]

\* The number shown by the format ".1f" for the quotient num / den times
\* 100, in tenths of a percent.
PercentTenths(num, den) ==
    IF den > 0 THEN (2000 * num + den) \div (2 * den)
    ELSE (2000 * (0 - num) + (0 - den)) \div (2 * (0 - den))

\* Mutant: the share is taken of the number of expenses, not of the total.
Percentage_OfCount(cat_stat, overall_stats) ==
    [category |-> cat_stat.category,
     percentage |-> <<100 * cat_stat.count, overall_stats.total[1]>>,
     shown |-> PercentTenths(cat_stat.count, overall_stats.total[1])]

\* percentage = (total / overall_stats[0]) * 100, kept as the exact quotient
\* and as the text that is printed.
Percentage(cat_stat, overall_stats) ==
    [category |-> cat_stat.category,
     percentage |-> <<100 * cat_stat.total, overall_stats.total[1]>>,
     shown |-> PercentTenths(cat_stat.total, overall_stats.total[1])]

\* The category breakdown of the monthly report, on screen and in the PDF.
MonthlyBreakdown(report) ==
    [i \in 1..Len(report.category_stats) |->
        Percentage(report.category_stats[i], report.overall_stats)]

\* Menu choice 7.  An input of None is text that int() does not parse.
show_monthly_report(D) ==
    /\ running
    /\ \E year_input \in D.yearinputs :
          IF year_input = None
          THEN /\ CliReply("show_monthly_report",
                           [year |-> year_input, month |-> None],
                           "invalid_input", None)
               /\ UNCHANGED <<running, expenses>>
          ELSE \E month_input \in D.monthinputs :
            LET req == [year |-> year_input, month |-> month_input]
            IN  IF month_input = None
                THEN /\ CliReply("show_monthly_report", req, "invalid_input", None)
                     /\ UNCHANGED <<running, expenses>>
                ELSE IF month_input[1] < 1 \/ month_input[1] > 12
                THEN /\ CliReply("show_monthly_report", req, "invalid_month", None)
                     /\ UNCHANGED <<running, expenses>>
                ELSE \E report \in generate_monthly_report(store, year_input[1],
                                                           month_input[1]) :
                       IF report.overall_stats.total = None
                       THEN /\ CliReply("show_monthly_report", req, "no_data", report)
                            /\ UNCHANGED <<running, expenses>>
                       ELSE IF report.overall_stats.total[1] = 0
                       THEN Crash("show_monthly_report", req, "ZeroDivisionError",
                                  report)
                       ELSE /\ CliReply("show_monthly_report", req, "shown",
                                        [category_stats |-> report.category_stats,
                                         overall_stats |-> report.overall_stats,
                                         breakdown |-> MonthlyBreakdown(report)])
                            /\ UNCHANGED <<running, expenses>>
    /\ UNCHANGED <<store, seq, assigned, inflight, now, session>>

\* Menu choice 20, report type 1: the monthly report as a PDF file.  The
\* two int() calls are outside any try block.
export_to_pdf_monthly(D) ==
    /\ running
    /\ \E year_input \in D.yearinputs :
          IF year_input = None
          THEN Crash("export_to_pdf", [year |-> year_input, month |-> None],
                     "ValueError", None)
          ELSE \E month_input \in D.monthinputs :
            LET req == [year |-> year_input, month |-> month_input]
            IN  IF month_input = None
                THEN Crash("export_to_pdf", req, "ValueError", None)
                ELSE \E report \in generate_monthly_report(store, year_input[1],
                                                           month_input[1]) :
                       IF report.overall_stats.total = None
                       THEN /\ CliReply("export_to_pdf", req, "no_data", report)
                            /\ UNCHANGED <<running, expenses>>
                       ELSE IF report.overall_stats.total[1] = 0
                       THEN Crash("export_to_pdf", req, "ZeroDivisionError", report)
                       ELSE /\ CliReply("export_to_pdf", req, "saved",
                                        [category_stats |-> report.category_stats,
                                         overall_stats |-> report.overall_stats,
                                         breakdown |-> MonthlyBreakdown(report)])
                            /\ UNCHANGED <<running, expenses>>
    /\ UNCHANGED <<store, seq, assigned, inflight, now, session>>

\* Menu choice 8.
show_yearly_summary(D) ==
    /\ running
    /\ \E year_input \in D.yearinputs :
          LET req == [year |-> year_input]
          IN  IF year_input = None
              THEN CliReply("show_yearly_summary", req, "invalid_input", None)
              ELSE LET monthly_totals == generate_yearly_summary(store, year_input[1])
                       yearly_total == SumField(monthly_totals, "total")
                       yearly_count == SumField(monthly_totals, "count")
                       out == [monthly_totals |-> monthly_totals,
                               yearly_total |-> yearly_total,
                               yearly_count |-> yearly_count,
                               lines |-> SelectSeq(monthly_totals,
                                                   LAMBDA m : m.total > 0)]
                   IN  IF yearly_total = 0
                       THEN CliReply("show_yearly_summary", req, "no_data", out)
                       ELSE CliReply("show_yearly_summary", req, "shown", out)
    /\ UNCHANGED <<store, seq, assigned, inflight, now, session, running, expenses>>

\* Menu choice 10.  The total is printed, then one line per category of
\* CATEGORIES that has an expense, each with its share of the total.
view_total ==
    /\ running
    /\ IF Len(expenses) = 0
       THEN /\ CliReply("view_total", None, "no_expenses", None)
            /\ UNCHANGED <<running, expenses>>
       ELSE LET total == SumList(expenses)
                breakdown == CategoryBreakdown(expenses, total)
            IN  IF total = 0 /\ breakdown # <<>>
                THEN Crash("view_total", None, "ZeroDivisionError",
                           [rows |-> expenses, total |-> total])
                ELSE /\ CliReply("view_total", None, "shown",
                                 [rows |-> expenses, total |-> total,
                                  breakdown |-> breakdown])
                     /\ UNCHANGED <<running, expenses>>
    /\ UNCHANGED <<store, seq, assigned, inflight, now, session>>

\* SELECT category, SUM(amount) ... ORDER BY total DESC LIMIT 1: the rows
\* that may come first, none over an empty table.
HighestCategory(S) ==
    LET groups == {[category |-> c,
                    total |-> SumAmounts({r \in S : r.category = c})] :
                   c \in {r.category : r \in S}}
    IN  IF groups = {} THEN {None}
        ELSE {Some(g) : g \in {x \in groups : \A h \in groups : h.total <= x.total}}

\* SELECT category, COUNT(*) ... ORDER BY count DESC LIMIT 1
FrequentCategory(S) ==
    LET groups == {[category |-> c,
                    count |-> Cardinality({r \in S : r.category = c})] :
                   c \in {r.category : r \in S}}
    IN  IF groups = {} THEN {None}
        ELSE {Some(g) : g \in {x \in groups : \A h \in groups : h.count <= x.count}}

\* SELECT amount, description, category, date ... ORDER BY amount DESC LIMIT 1
LargestExpense(S) ==
    IF S = {} THEN {None}
    ELSE {Some([amount |-> r.amount, description |-> r.description,
                category |-> r.category, date |-> r.date]) :
          r \in {x \in S : \A y \in S : y.amount <= x.amount}}

\* SELECT AVG(amount); "if result and result[0]" keeps the average only if
\* it is neither NULL nor zero.
AverageExpense(S) ==
    IF SqlAvg(S) = None \/ SumAmounts(S) = 0 THEN None ELSE SqlAvg(S)

\* get_spending_insights(): the possible dictionaries; a key that is not
\* set is None.
get_spending_insights(S) ==
    {[highest_category |-> h, frequent_category |-> f, largest_expense |-> l,
      average_expense |-> AverageExpense(S), total_count |-> Cardinality(S)] :
     h \in HighestCategory(S), f \in FrequentCategory(S), l \in LargestExpense(S)}

\* Menu choice 9.  The average is printed without asking whether its key
\* is set.
show_insights ==
    /\ running
    /\ \E insights \in get_spending_insights(store) :
          IF insights.total_count = 0
          THEN /\ CliReply("show_insights", None, "no_data", insights)
               /\ UNCHANGED <<running, expenses>>
          ELSE IF insights.average_expense = None
          THEN Crash("show_insights", None, "KeyError", insights)
          ELSE /\ CliReply("show_insights", None, "shown", insights)
               /\ UNCHANGED <<running, expenses>>
    /\ UNCHANGED <<store, seq, assigned, inflight, now, session>>

----------------------------------------------------------------------------
(* Command-line program: month-over-month comparison chart *)

\* SQLite's date modifier '-1 month': the month number is decremented and the
\* resulting date is then normalised, so a day the earlier month does not
\* have runs over into the month after it ('2025-03-31' gives '2025-03-03').
MinusOneMonth(t) ==
    LET y1 == IF t.m > 1 THEN t.y ELSE t.y - 1
        m1 == IF t.m > 1 THEN t.m - 1 ELSE 12
        dim == DaysInMonth(y1, m1)
    IN  IF t.d <= dim THEN [t EXCEPT !.y = y1, !.m = m1]
        ELSE [t EXCEPT !.d = t.d - dim]

\* SELECT category, SUM(amount) ... WHERE strftime('%Y-%m', date) = ym
\* GROUP BY category, read into a dict.  The clock of the program and the
\* clock of 'now' are taken to be in the same time zone.
CategoryTotals(S, ym) ==
    LET rows == {r \in S : YearMonth(strftime(r.date)) = ym}
    IN  {[category |-> g.category, total |-> g.total] : g \in GroupByCategory(rows)}

\* dict.get(cat, 0)
DictGet(dict, cat) ==
    IF \E e \in dict : e.category = cat
    THEN (CHOOSE e \in dict : e.category = cat).total
    ELSE 0

\* sum([dict.get(cat, 0) for cat in CATEGORIES])
ChartTotal(dict) ==
    SumField([i \in 1..Len(CATEGORIES) |-> [total |-> DictGet(dict, CATEGORIES[i])]],
             "total")

PercentChange_Unguarded(this_total, last_total) ==
    Some([num |-> 100 * (this_total - last_total), den |-> last_total])

\* The change line of the summary: the quotient 100 * (this - last) / last as
\* an exact fraction, or None when the line is not printed.
PercentChange(this_total, last_total) ==
    IF last_total > 0
    THEN Some([num |-> 100 * (this_total - last_total), den |-> last_total])
    ELSE None

visualize_comparison_chart ==
    /\ running
    /\ LET this_month == CategoryTotals(store, YearMonth(now))
           last_month == CategoryTotals(store, YearMonth(MinusOneMonth(now)))
           this_total == ChartTotal(this_month)
           last_total == ChartTotal(last_month)
       IN  IF this_month = {} /\ last_month = {}
           THEN CliReply("visualize_comparison_chart", None, "no_data", None)
           ELSE CliReply("visualize_comparison_chart", None, "shown",
                         [this_month |-> this_month, last_month |-> last_month,
                          this_total |-> this_total, last_total |-> last_total,
                          change |-> PercentChange(this_total, last_total)])
    /\ UNCHANGED <<store, seq, assigned, inflight, now, session, running, expenses>>

----------------------------------------------------------------------------
(* Web handlers statement by statement: each request runs on its own       *)
(* connection in its own thread, every execute() is one read or write of   *)
(* the table, and other requests may run between two of them.              *)

\* the request threads of the server
Threads == {1, 2}

FreeThreads == {t \in Threads : \A p \in inflight : p.thread # t}

\* SELECT category, SUM, COUNT, AVG ... GROUP BY category ORDER BY total DESC
MonthlyCategoryStats(S, u, year, month) ==
    TotalDesc(GroupByCategory(InMonth({r \in S : r.user_id = u}, year, month)))

\* SELECT SUM, COUNT, AVG, MIN, MAX of the same range
MonthlyOverall(S, u, year, month) ==
    OverallStats(InMonth({r \in S : r.user_id = u}, year, month))

\* /reports/monthly up to and including its first SELECT
monthly_report_category_stats(D) ==
    \/ LoginRequired("monthly_report")
    \/ \E req \in QueryReqs(D, "monthly_report"), t \in FreeThreads :
           /\ session # NoUser
           /\ \E cats \in MonthlyCategoryStats(store, session, req.year, req.month) :
                inflight' = inflight \cup
                    {[thread |-> t, op |-> "monthly_report", user |-> session,
                      req |-> req, read |-> cats]}
           /\ UNCHANGED <<store, seq, assigned, now, session, running, expenses, resp>>

\* /reports/monthly from its second SELECT to the rendered page
monthly_report_overall ==
    \E p \in inflight :
        /\ p.op = "monthly_report"
        /\ inflight' = inflight \ {p}
        /\ resp' = [op |-> p.op, user |-> p.user, req |-> p.req,
                    status |-> IF MonthNameMissing(p.op, p.req)
                               THEN "IndexError" ELSE "ok",
                    out |-> IF MonthNameMissing(p.op, p.req) THEN None
                            ELSE [category_stats |-> p.read,
                                  overall |-> MonthlyOverall(store, p.user,
                                                             p.req.year, p.req.month)]]
        /\ UNCHANGED <<store, seq, assigned, now, session, running, expenses>>

\* /delete/<id> up to and including its SELECT
delete_expense_select ==
    \/ LoginRequired("web_delete")
    \/ \E id \in 1..MaxId, t \in FreeThreads :
        LET req == [id |-> id]
            expense == DeleteLookup(store, id, session)
        IN  /\ session # NoUser
            /\ IF expense # {}
               THEN /\ inflight' = inflight \cup
                          {[thread |-> t, op |-> "web_delete", user |-> session,
                            req |-> req, read |-> expense]}
                    /\ UNCHANGED resp
               ELSE /\ Reply("web_delete", req, "error", None)
                    /\ UNCHANGED inflight
            /\ UNCHANGED <<store, seq, assigned, now, session, running, expenses>>

\* /delete/<id> from its DELETE to the redirect
delete_expense_delete ==
    \E p \in inflight :
        /\ p.op = "web_delete"
        /\ inflight' = inflight \ {p}
        /\ store' = WebDelete(store, p.req.id, p.user)
        /\ resp' = [op |-> p.op, user |-> p.user, req |-> p.req,
                    status |-> "success", out |-> None]
        /\ UNCHANGED <<seq, assigned, now, session, running, expenses>>

\* POST /edit/<id> up to and including its SELECT
edit_expense_select(D) ==
    \/ LoginRequired("web_edit")
    \/ \E id \in 1..MaxId, t \in FreeThreads, amount \in D.amounts,
          description \in D.descs, category \in D.formcats :
        LET req == [id |-> id, method |-> "POST", amount |-> amount,
                    description |-> description, category |-> category]
            expense == EditLookup(store, id, session)
        IN  /\ session # NoUser
            /\ IF expense # {}
               THEN /\ inflight' = inflight \cup
                          {[thread |-> t, op |-> "web_edit", user |-> session,
                            req |-> req, read |-> expense]}
                    /\ UNCHANGED resp
               ELSE /\ Reply("web_edit", req, "error", None)
                    /\ UNCHANGED inflight
            /\ UNCHANGED <<store, seq, assigned, now, session, running, expenses>>

\* POST /edit/<id> from its UPDATE to the redirect
edit_expense_update ==
    \E p \in inflight :
        /\ p.op = "web_edit"
        /\ inflight' = inflight \ {p}
        /\ store' = WebUpdate(store, p.req.id, p.user, p.req.amount,
                              p.req.description, p.req.category)
        /\ resp' = [op |-> p.op, user |-> p.user, req |-> p.req,
                    status |-> "success", out |-> None]
        /\ UNCHANGED <<seq, assigned, now, session, running, expenses>>

----------------------------------------------------------------------------
(* Input domains *)

DomWeb ==
    [users |-> Users,
     amounts |-> {2},
     descs |-> {<<"T", "a", "x", "i">>},
     formcats |-> {Food, Bills},
     formdates |-> {None},
     filtercats |-> {<<>>, Food},
     terms |-> {<<>>, <<"o">>},
     years |-> {2025},
     months |-> {1},
     instants |-> {}]

\* The command-line program has created the table (init_database) and sits
\* at its menu with the empty list it loaded; nobody is logged in on the web.
Init ==
    /\ store = {}
    /\ seq = 0
    /\ assigned = {}
    /\ now = FirstInstant
    /\ session = NoUser
    /\ running = TRUE
    /\ expenses = <<>>
    /\ inflight = {}
    /\ resp = [op |-> "init", user |-> NoUser, req |-> None, status |-> "ok", out |-> None]

Crypto == <<"C", "r", "y", "p", "t", "o">>

Taxi == <<"T", "a", "x", "i">>

DomStore ==
    [users |-> {2},
     amounts |-> {1},
     descs |-> {Taxi},
     choices |-> {1, 5},
     editchoices |-> {"0", "1", "3", "4"},
     amountinputs |-> {None, Some(2)},
     descinputs |-> {None, Some(<<"b", "u", "s">>)},
     formcats |-> {Food, Crypto},
     formdates |-> {None}]

DomCli ==
    [amounts |-> {1},
     descs |-> {Taxi},
     choices |-> {1},
     viewchoices |-> {"0", "1", "2", "3", "4", "9"},
     dateinputs |-> {None, Some(Jan31), Some(Feb01)},
     instants |-> {At(Jan31, LastSecond, 0), At(Jan31, LastSecond, 500000),
                   At(Feb01, 0, 0)}]

Bus == <<"b", "u", "s">>

DomSearch ==
    [users |-> {AdminId},
     amounts |-> {1, 2},
     descs |-> {Taxi, Bus},
     choices |-> {1},
     rawterms |-> {<<" ">>, <<"A">>, <<"o", "o", " ">>, <<"_">>},
     limits |-> {None, Some(1), Some(2)},
     catfilters |-> {None, Some(1), Some(5)},
     keywords |-> {<<"A">>},
     filtercats |-> {<<>>, Food},
     terms |-> {<<>>, <<"s">>, <<"%">>}]

NextWeb ==
    \/ login(DomWeb)
    \/ logout
    \/ web_add_expense(DomWeb)
    \/ web_edit_expense(DomWeb)
    \/ web_delete_expense
    \/ index(DomWeb)
    \/ expenses_page(DomWeb)
    \/ monthly_report(DomWeb)
    \/ category_report(DomWeb)
    \/ yearly_report(DomWeb)
    \/ api_stats(DomWeb)
    \/ export_csv(DomWeb)
    \/ export_json(DomWeb)

SpecWeb == Init /\ [][NextWeb]_vars

\* The command-line program and the web front end writing to one table.
NextStore ==
    \/ main_add(DomStore)
    \/ cli_delete_expense
    \/ cli_edit_expense(DomStore)
    \/ login(DomStore)
    \/ logout
    \/ web_add_expense(DomStore)
    \/ web_edit_expense(DomStore)
    \/ web_delete_expense

SpecStore == Init /\ [][NextStore]_vars

----------------------------------------------------------------------------
(* Ownership in the web front end *)

WebWriteOps == {"web_add", "web_edit", "web_delete"}

\* C1: a web delete of a record that another user owns reports an error,
\* never success, and leaves the table exactly as it was.
C1_CrossOwnerDeleteDenied ==
    [][(/\ resp'.op = "web_delete"
        /\ resp'.user # NoUser
        /\ \E r \in store : r.id = resp'.req.id /\ r.user_id # resp'.user)
       => (resp'.status = "error" /\ store' = store)]_vars

C1_Witness ==
    /\ resp.op = "web_delete"
    /\ resp.user # NoUser
    /\ resp.status = "error"
    /\ \E r \in store : r.id = resp.req.id /\ r.user_id # resp.user

\* C2: a web edit request, GET or POST, for a record that another user owns
\* reports an error and leaves the table exactly as it was.
C2_CrossOwnerEditDenied ==
    [][(/\ resp'.op = "web_edit"
        /\ resp'.user # NoUser
        /\ \E r \in store : r.id = resp'.req.id /\ r.user_id # resp'.user)
       => (resp'.status = "error" /\ store' = store)]_vars

C2_Witness ==
    /\ resp.op = "web_edit"
    /\ resp.user # NoUser
    /\ resp.req.method = "POST"
    /\ resp.status = "error"
    /\ \E r \in store : /\ r.id = resp.req.id
                        /\ r.user_id # resp.user
                        /\ r.category # resp.req.category

\* C3: the result of every web query of user u is one the query gives on
\* u's own records alone, and a write request of another user changes the
\* result of no query of u.
C3_QueriesScopedToOwner ==
    [][/\ (resp'.op \in WebQueryOps /\ resp'.user # NoUser)
          => resp'.out \in WebQueryResults(resp'.op, resp'.req,
                                           OwnedBy(store, resp'.user),
                                           resp'.user, now)
       /\ (resp'.op \in WebWriteOps /\ resp'.user # NoUser)
          => \A u \in Users \ {resp'.user} :
                \A op \in WebQueryOps :
                    \A req \in QueryReqs(DomWeb, op) :
                        WebQueryResults(op, req, store', u, now)
                            = WebQueryResults(op, req, store, u, now)]_vars

C3_Witness ==
    /\ resp.op \in WebQueryOps
    /\ resp.user # NoUser
    /\ resp.status = "ok"
    /\ \E r \in store : r.user_id = resp.user
    /\ \E r \in store : r.user_id # resp.user

----------------------------------------------------------------------------
(* Records under add, edit and delete *)

EditOps == {"cli_edit", "web_edit"}

\* The id an edit step wrote to, if it wrote at all.
EditTarget(r) ==
    IF r.op = "cli_edit" /\ r.status = "updated" THEN {r.req.id}
    ELSE IF r.op = "web_edit" /\ r.status = "success" THEN {r.req.id}
    ELSE {}

\* C4: an edit, from the command line or the web, keeps the id, the
\* timestamp and the owner of every record, and changes nothing at all of
\* any record other than its target, in the table and in the in-memory list.
C4_EditFrame ==
    [][resp'.op \in EditOps =>
        /\ Ids(store') = Ids(store)
        /\ Cardinality(store') = Cardinality(store)
        /\ \A r \in store : \A r2 \in store' :
              r2.id = r.id =>
                /\ r2.date = r.date
                /\ r2.user_id = r.user_id
                /\ (r.id \notin EditTarget(resp') => r2 = r)
        /\ Len(expenses') = Len(expenses)
        /\ \A i \in 1..Len(expenses) :
              /\ expenses'[i].id = expenses[i].id
              /\ expenses'[i].date = expenses[i].date
              /\ (expenses[i].id \notin EditTarget(resp') => expenses'[i] = expenses[i])
      ]_vars

C4_Witness ==
    /\ resp.op = "cli_edit"
    /\ resp.status = "updated"
    /\ resp.req.edit_choice = "4"
    /\ resp.req.amount # None
    /\ \E r \in store : r.id = resp.req.id /\ r.amount = resp.req.amount[1]
    /\ \E r \in store : r.id # resp.req.id

\* C5: every record in the table has one of the six categories.
C5_CategoryInFixedSet == \A r \in store : r.category \in CategorySet

\* C6: ids are unique in the table, the id an add returns is the id of the
\* one record it inserted, and an id that was ever assigned is not assigned
\* again.
C6_IdsUniqueNeverReused ==
    [][/\ \A r1, r2 \in store' : r1.id = r2.id => r1 = r2
       /\ \A i \in Ids(store') \ Ids(store) : i \notin assigned
       /\ resp'.op = "main_add" =>
            /\ \E r \in store' \ store :
                  /\ store' \ store = {r}
                  /\ r.id = resp'.out
                  /\ r.amount = resp'.req.amount
                  /\ r.description = resp'.req.description
            /\ expenses'[1].id = resp'.out
      ]_vars

C6_Witness ==
    /\ resp.op = "main_add"
    /\ resp.out \in Ids(store)
    /\ \E i \in assigned : i \notin Ids(store)

----------------------------------------------------------------------------
(* The date-range view of the command-line program *)

\* The calendar day of a datetime, and the order of days.
DayOf(dt) == [y |-> dt.y, m |-> dt.m, d |-> dt.d]

DayLess(a, b) ==
    \/ a.y < b.y
    \/ a.y = b.y /\ a.m < b.m
    \/ a.y = b.y /\ a.m = b.m /\ a.d < b.d

\* A custom range request whose two dates were read and parsed.
CustomRange(r) ==
    /\ r.op = "view_by_date"
    /\ r.status # "no_expenses"
    /\ r.req.choice = "4"
    /\ r.req.start # None
    /\ r.req.end # None

\* C7: a custom range with start <= end shows exactly the expenses of the
\* list whose timestamp lies between the first instant of the start day and
\* the end of the end day.
C7_DateRangeExact ==
    (CustomRange(resp) /\ ~DayLess(resp.req.end[1], resp.req.start[1]))
    => /\ resp.status \in {"shown", "none_found"}
       /\ resp.out.rows =
            SelectSeq(expenses,
                      LAMBDA e : /\ ~DayLess(DayOf(e.date), resp.req.start[1])
                                 /\ ~DayLess(resp.req.end[1], DayOf(e.date)))

\* C8: a custom range whose start day is after its end day is rejected
\* with the range error, which is not the "none found" outcome, and shows
\* no expense.
C8_StartAfterEndRejected ==
    (CustomRange(resp) /\ DayLess(resp.req.end[1], resp.req.start[1]))
    => (resp.status = "start_after_end" /\ resp.out = None)

C8_Witness ==
    /\ CustomRange(resp)
    /\ DayLess(resp.req.end[1], resp.req.start[1])
    /\ resp.status = "start_after_end"
    /\ \E i \in 1..Len(expenses) :
          /\ ~DayLess(DayOf(expenses[i].date), resp.req.end[1])
          /\ ~DayLess(resp.req.start[1], DayOf(expenses[i].date))

\* The command-line program alone, with the clock running.
NextCli ==
    \/ Tick(DomCli)
    \/ main_add(DomCli)
    \/ view_expenses_by_date(DomCli)

SpecCli == Init /\ [][NextCli]_vars

----------------------------------------------------------------------------
(* Search *)

\* t occurs in s as a run of consecutive characters.
Contains(s, t) ==
    \E i \in 0..(Len(s) - Len(t)) : SubSeq(s, i + 1, i + Len(t)) = t

\* The term occurs in the description or in the category, whatever the case
\* of the letters.
TermOccurs(r, term) ==
    \/ Contains(LOWER(r.description), LOWER(term))
    \/ Contains(LOWER(r.category), LOWER(term))

RowIds(rows) == {rows[i].id : i \in 1..Len(rows)}

\* C9: the command-line search and the web list search return exactly the
\* records in whose description or category the term occurs, without regard
\* to case; the search function given the empty term returns every record.
C9_SearchIsSubstringMatch ==
    /\ (resp.op = "search" /\ resp.status # "cancelled")
       => RowIds(resp.out.rows) = {r.id : r \in {x \in store : TermOccurs(x, resp.req.term)}}
    /\ (resp.op = "expenses" /\ resp.status = "ok")
       => RowIds(resp.out) =
            {r.id : r \in {x \in OwnedBy(store, resp.user) :
                            /\ resp.req.category # <<>> => x.category = resp.req.category
                            /\ TermOccurs(x, resp.req.search)}}
    /\ \A rows \in search_expenses_in_db(store, <<>>) : RowIds(rows) = Ids(store)

\* Whether a record meets the criteria of an advanced search request.
MeetsCriteria(r, req) ==
    /\ req.min_amount # None => r.amount >= req.min_amount[1]
    /\ req.max_amount # None => r.amount <= req.max_amount[1]
    /\ req.category # None => r.category = req.category[1]
    /\ req.search_term # None
       => LikeMatch(LOWER(Wrap(req.search_term[1])), LOWER(r.description))

NextSearch ==
    \/ main_add(DomSearch)
    \/ search_expenses(DomSearch)
    \/ advanced_search_menu(DomSearch)
    \/ login(DomSearch)
    \/ expenses_page(DomSearch)

SpecSearch == Init /\ [][NextSearch]_vars

----------------------------------------------------------------------------
(* Order of the listings *)

DomList ==
    [users |-> {AdminId},
     amounts |-> {1},
     descs |-> {Taxi},
     choices |-> {1, 5},
     catinputs |-> {None, Some(0), Some(1), Some(5)},
     editchoices |-> {"0", "3"},
     amountinputs |-> {None},
     descinputs |-> {None},
     viewchoices |-> {"3", "4"},
     dateinputs |-> {Some(Jan31)},
     rawterms |-> {<<"a">>},
     filtercats |-> {<<>>, Food},
     terms |-> {<<>>, <<"a">>},
     instants |-> {At(Jan31, LastSecond, 0), At(Jan31, LastSecond, 500000),
                   At(Feb01, 0, 0)}]

\* A list of expenses, or of fetched rows, runs from the newest to the oldest.
NewestFirst(list) ==
    \A i, j \in 1..Len(list) : i < j => NotAfter(list[j].date, list[i].date)

RowsNewestFirst(rows) ==
    \A i, j \in 1..Len(rows) : i < j => TextLeq(rows[j].date, rows[i].date)

ListViews == {"view_all", "view_by_category", "view_by_date", "search"}

NextList ==
    \/ Tick(DomList)
    \/ main_add(DomList)
    \/ cli_edit_expense(DomList)
    \/ cli_delete_expense
    \/ main_exit
    \/ main_start
    \/ view_all
    \/ view_by_category(DomList)
    \/ view_expenses_by_date(DomList)
    \/ search_expenses(DomList)
    \/ login(DomList)
    \/ expenses_page(DomList)
    \/ export_csv(DomList)

SpecList == Init /\ [][NextList]_vars

----------------------------------------------------------------------------
(* Monthly report and yearly summary *)

Dec31 == [y |-> 2025, m |-> 12, d |-> 31]

Jan01 == [y |-> 2026, m |-> 1, d |-> 1]

DomReport ==
    [users |-> {AdminId},
     amounts |-> {0, 1, 2},
     descs |-> {Taxi},
     choices |-> {1, 5},
     yearinputs |-> {None, Some(2025)},
     monthinputs |-> {None, Some(1), Some(12), Some(13)},
     years |-> {2025, 2026},
     months |-> {1, 12},
     instants |-> {At(Dec31, LastSecond, 0), At(Jan01, 0, 0)}]

\* The records whose timestamp lies in a calendar month, and in a year.
CalendarMonth(S, year, month) == {r \in S : r.date.y = year /\ r.date.m = month}

CalendarYear(S, year) == {r \in S : r.date.y = year}

\* The rows and the overall figures of a monthly report describe the
\* record set rows.
ReportDescribes(cats, overall, rows) ==
    /\ overall.count = Cardinality(rows)
    /\ rows # {} =>
          /\ overall.total = Some(SumAmounts(rows))
          /\ overall.average = Some(<<SumAmounts(rows), Cardinality(rows)>>)
          /\ \E r \in rows : overall.minimum = Some(r.amount)
          /\ \E r \in rows : overall.maximum = Some(r.amount)
          /\ \A r \in rows : /\ overall.minimum[1] <= r.amount
                              /\ r.amount <= overall.maximum[1]
    /\ Len(cats) = Cardinality({r.category : r \in rows})
    /\ {cats[i].category : i \in 1..Len(cats)} = {r.category : r \in rows}
    /\ \A i \in 1..Len(cats) :
          LET group == {r \in rows : r.category = cats[i].category}
          IN  /\ cats[i].total = SumAmounts(group)
              /\ cats[i].count = Cardinality(group)
              /\ cats[i].average = Some(<<SumAmounts(group), Cardinality(group)>>)
    /\ \A i, j \in 1..Len(cats) : i < j => cats[i].total >= cats[j].total

\* A monthly report of the command-line program that reached the query.
CliMonthly(r) ==
    /\ r.op \in {"show_monthly_report", "export_to_pdf"}
    /\ r.status \in {"no_data", "shown", "saved", "ZeroDivisionError"}

\* C13: the monthly report, of the command line and of the web, gives the
\* total, count, average, minimum and maximum of exactly the records of the
\* calendar month, and one row per category of that month with its total,
\* count and average, the rows by descending total.
C13_MonthlyReportFigures ==
    /\ CliMonthly(resp)
       => ReportDescribes(resp.out.category_stats, resp.out.overall_stats,
                          CalendarMonth(store, resp.req.year[1], resp.req.month[1]))
    /\ \A u \in DomReport.users, year \in DomReport.years,
          month \in DomReport.months :
          \A out \in MonthlyResults(store, u, year, month) :
              ReportDescribes(out.category_stats, out.overall,
                              CalendarMonth(OwnedBy(store, u), year, month))

C13_Witness ==
    /\ resp.op = "show_monthly_report"
    /\ resp.status = "shown"
    /\ resp.req.month = Some(12)
    /\ Len(resp.out.category_stats) = 2
    /\ resp.out.category_stats[1].total > resp.out.category_stats[2].total
    /\ resp.out.overall_stats.minimum # resp.out.overall_stats.maximum

\* C14: with no record in the month every overall figure of the monthly
\* report is absent and the program says there is no data; with a record
\* in the month the figures are present, a total of zero included, and the
\* program does not say there is no data.
C14_NoDataDistinctFromZero ==
    CliMonthly(resp)
    => LET rows == CalendarMonth(store, resp.req.year[1], resp.req.month[1])
           o == resp.out.overall_stats
       IN  /\ rows = {} =>
                 /\ resp.status = "no_data"
                 /\ o.total = None /\ o.average = None
                 /\ o.minimum = None /\ o.maximum = None
           /\ rows # {} =>
                 /\ resp.status # "no_data"
                 /\ o.total # None /\ o.average # None
                 /\ o.minimum # None /\ o.maximum # None

C14_Witness ==
    /\ resp.op = "show_monthly_report"
    /\ resp.status # "no_data"
    /\ resp.req.month = Some(1)
    /\ resp.out.overall_stats.total = Some(0)
    /\ resp.out.overall_stats.count = 1

\* The numerators of the exact percentages of a breakdown.
Numerators(breakdown) ==
    [i \in 1..Len(breakdown) |-> [num |-> breakdown[i].percentage[1]]]

\* C16: when the overall total of a monthly report is above zero, the
\* percentages of its category rows add up to 100, and the percentages as
\* printed to one decimal add up to 100 within half a tenth per row.
C16_PercentagesSumTo100 ==
    (/\ resp.op \in {"show_monthly_report", "export_to_pdf"}
     /\ resp.status \in {"shown", "saved"}
     /\ resp.out.overall_stats.total[1] > 0)
    => LET b == resp.out.breakdown
           shown == SumField(b, "shown")
       IN  /\ Len(b) = Len(resp.out.category_stats)
           /\ \A i \in 1..Len(b) :
                 b[i].percentage[2] = resp.out.overall_stats.total[1]
           /\ SumField(Numerators(b), "num") = 100 * resp.out.overall_stats.total[1]
           /\ 2 * (shown - 1000) <= Len(b)
           /\ 2 * (1000 - shown) <= Len(b)

C16_Witness ==
    /\ resp.op = "show_monthly_report"
    /\ resp.status = "shown"
    /\ Len(resp.out.breakdown) = 2
    /\ resp.out.breakdown[1].shown = 667
    /\ resp.out.breakdown[2].shown = 333

\* The yearly summaries to look at: the one the command line has just
\* shown, and the ones the web gives for the table as it is.  Each with its
\* twelve entries, its totals and the records it is about.
Yearlies ==
    (IF resp.op = "show_yearly_summary" /\ resp.status \in {"no_data", "shown"}
     THEN {[entries |-> resp.out.monthly_totals, total |-> resp.out.yearly_total,
            count |-> resp.out.yearly_count, year |-> resp.req.year[1],
            rows |-> store]}
     ELSE {})
    \cup
    UNION {{[entries |-> out.monthly_data, total |-> out.yearly_total,
             count |-> out.yearly_count, year |-> year,
             rows |-> OwnedBy(store, u)] :
            out \in YearlyResults(store, u, year)} :
           u \in DomReport.users, year \in DomReport.years}

\* C18: the yearly summary has the twelve entries of the months 1..12 in
\* order, an entry of a month without records has total 0 and count 0, and
\* the yearly total and count are the sums of the twelve entries.
C18_YearlyTwelveEntries ==
    \A y \in Yearlies :
        /\ Len(y.entries) = 12
        /\ \A i \in 1..Len(y.entries) :
              /\ y.entries[i].month = i
              /\ CalendarMonth(y.rows, y.year, i) = {}
                 => (y.entries[i].total = 0 /\ y.entries[i].count = 0)
        /\ y.total = SumField(y.entries, "total")
        /\ y.count = SumField(y.entries, "count")

C18_Witness ==
    /\ resp.op = "show_yearly_summary"
    /\ resp.status = "shown"
    /\ resp.out.monthly_totals[1].count = 1
    /\ resp.out.monthly_totals[2].count = 0
    /\ resp.out.monthly_totals[12].count = 1
    /\ resp.out.yearly_total = 3

\* C19: the bucket of a month holds the records from the first instant of
\* the month up to, not including, the first instant of the next month,
\* December running to January 1 of the next year: each record of year y is
\* counted in the entry of its own calendar month and in no other, and no
\* record of another year is counted.
C19_MonthBucketsHalfOpen ==
    /\ \A year \in DomReport.years : \A month \in 1..12 :
          InMonth(store, year, month) = CalendarMonth(store, year, month)
    /\ \A y \in Yearlies :
          /\ \A i \in 1..Len(y.entries) :
                /\ y.entries[i].count = Cardinality(CalendarMonth(y.rows, y.year, i))
                /\ y.entries[i].total = SumAmounts(CalendarMonth(y.rows, y.year, i))
          /\ y.count = Cardinality(CalendarYear(y.rows, y.year))
          /\ y.total = SumAmounts(CalendarYear(y.rows, y.year))

C19_Witness ==
    /\ resp.op = "show_yearly_summary"
    /\ resp.req.year = Some(2025)
    /\ resp.out.monthly_totals[12].count = 1
    /\ resp.out.yearly_count = 1
    /\ \E r \in store : r.date = strftime(At(Dec31, LastSecond, 0))
    /\ \E r \in store : r.date = strftime(At(Jan01, 0, 0))

\* The reports of the command-line program over the records it adds through
\* the year; the web reports are read off the same table.
NextReport ==
    \/ Tick(DomReport)
    \/ main_add(DomReport)
    \/ show_monthly_report(DomReport)
    \/ export_to_pdf_monthly(DomReport)
    \/ show_yearly_summary(DomReport)

SpecReport == Init /\ [][NextReport]_vars

----------------------------------------------------------------------------
(* Totals, breakdowns and insights *)

DomTotals ==
    [users |-> {AdminId},
     amounts |-> {0, 1},
     descs |-> {Taxi},
     choices |-> {1, 5},
     formcats |-> {Crypto},
     formdates |-> {None},
     viewchoices |-> {"3"},
     dateinputs |-> {},
     yearinputs |-> {Some(2025)},
     monthinputs |-> {Some(1)}]

\* C15: the subtotals of a category breakdown add up to the overall total
\* of the records it is about, and the counts to the overall count: in the
\* monthly report, in the date-range view and in the view of the total.
C15_SubtotalsSumToTotal ==
    /\ (CliMonthly(resp) /\ resp.status # "no_data")
       => /\ SumField(resp.out.category_stats, "total")
               = resp.out.overall_stats.total[1]
          /\ SumField(resp.out.category_stats, "count")
               = resp.out.overall_stats.count
    /\ (resp.op \in {"view_by_date", "view_total"} /\ resp.status = "shown")
       => /\ resp.out.total = SumList(resp.out.rows)
          /\ SumField(resp.out.breakdown, "cat_total") = resp.out.total

\* C17: no report divides by a total of zero: the monthly report, the PDF
\* of it, the date-range view and the view of the total never end in
\* ZeroDivisionError.
C17_NoDivisionByZero ==
    resp.op \in {"show_monthly_report", "export_to_pdf", "view_by_date", "view_total"}
    => resp.status # "ZeroDivisionError"

\* C20: the insights have no average exactly when there is no record; with
\* no record the program says there is no data, and with a record the
\* average is the sum over the count and the insights are shown.
C20_AverageAbsentIffNoRecords ==
    resp.op = "show_insights"
    => /\ resp.out \in get_spending_insights(store)
       /\ resp.out.total_count = Cardinality(store)
       /\ resp.out.average_expense = None <=> resp.out.total_count = 0
       /\ store = {} => resp.status = "no_data"
       /\ store # {} =>
             /\ resp.status = "shown"
             /\ resp.out.average_expense
                  = Some(<<SumAmounts(store), Cardinality(store)>>)

\* The command-line program over a table that the web also writes to.
NextTotals ==
    \/ main_add(DomTotals)
    \/ main_exit
    \/ main_start
    \/ login(DomTotals)
    \/ web_add_expense(DomTotals)
    \/ view_total
    \/ view_expenses_by_date(DomTotals)
    \/ show_monthly_report(DomTotals)
    \/ show_insights

SpecTotals == Init /\ [][NextTotals]_vars

----------------------------------------------------------------------------
(* Month-over-month comparison *)

Mar31 == [y |-> 2025, m |-> 3, d |-> 31]

DomCompare ==
    [amounts |-> {0, 1, 3},
     descs |-> {Taxi},
     choices |-> {1, 5},
     instants |-> {At(Feb01, 0, 0), At(Mar31, 0, 0)}]

\* category -> total of a set of records
TotalsOf(rows) ==
    {[category |-> c, total |-> SumAmounts({r \in rows : r.category = c})] :
     c \in {r.category : r \in rows}}

Compared == resp.op = "visualize_comparison_chart"

\* C21: whatever the current date is, the 'this month' bucket of the
\* comparison holds the records of the current calendar month and the 'last
\* month' bucket those of the calendar month immediately before it.
C21_CalendarMonthBuckets ==
    Compared =>
        LET prev == PrevMonthEnd(now)
            this == TotalsOf(CalendarMonth(store, now.y, now.m))
            last == TotalsOf(CalendarMonth(store, prev.y, prev.m))
        IN  IF resp.status = "shown"
            THEN resp.out.this_month = this /\ resp.out.last_month = last
            ELSE this = {} /\ last = {}

NextCompare ==
    \/ Tick(DomCompare)
    \/ main_add(DomCompare)
    \/ visualize_comparison_chart

SpecCompare == Init /\ [][NextCompare]_vars

----------------------------------------------------------------------------
(* Zero and negative amounts in the aggregates *)

\* C23: a record with a zero or negative amount counts like any other: a
\* year or month that has a record is never reported as having no expenses,
\* the yearly count is the number of records of the year, and every month
\* with a record has its line in the yearly breakdown.
C23_ZeroAmountsCounted ==
    /\ (resp.op = "show_yearly_summary" /\ resp.status # "invalid_input")
       => LET year == resp.req.year[1]
          IN  /\ resp.out.yearly_count = Cardinality(CalendarYear(store, year))
              /\ CalendarYear(store, year) # {} => resp.status = "shown"
              /\ \A m \in 1..12 :
                    CalendarMonth(store, year, m) # {}
                    => \E i \in 1..Len(resp.out.lines) : resp.out.lines[i].month = m
    /\ CliMonthly(resp)
       => (CalendarMonth(store, resp.req.year[1], resp.req.month[1]) # {}
           => resp.status # "no_data")

----------------------------------------------------------------------------
(* Validation of categories and months *)

DomValidate ==
    [users |-> {AdminId},
     amounts |-> {1},
     descs |-> {Taxi},
     formcats |-> {Food, Crypto},
     formdates |-> {None},
     filtercats |-> {<<>>, Food, Crypto},
     terms |-> {<<>>},
     years |-> {2025},
     months |-> {1, 13},
     yearinputs |-> {Some(2025)},
     monthinputs |-> {Some(1), Some(13)}]

ValidationErrors == {"invalid_month", "invalid_category"}

\* the request r names a month outside 1..12 or a category outside the fixed set
OutOfDomain(r) ==
    \/ /\ r.op \in {"show_monthly_report", "export_to_pdf"}
       /\ r.req.year # None /\ r.req.month # None
       /\ r.req.month[1] \notin 1..12
    \/ /\ r.op = "monthly_report" /\ r.user # NoUser
       /\ r.req.month \notin 1..12
    \/ /\ r.op = "expenses" /\ r.user # NoUser
       /\ r.req.category \notin CategorySet \cup {<<>>}
    \/ /\ r.op = "web_add" /\ r.user # NoUser
       /\ r.req.category \notin CategorySet
    \/ /\ r.op = "web_edit" /\ r.user # NoUser /\ r.req.method = "POST"
       /\ r.req.category \notin CategorySet

\* C24: an operation given a category outside the fixed set or a month
\* outside 1..12 answers with a validation error, not with a result (an
\* empty one included), and leaves the table as it was.
C24_OutOfDomainRejected ==
    [][OutOfDomain(resp') => (resp'.status \in ValidationErrors /\ store' = store)]_vars

NextValidate ==
    \/ login(DomValidate)
    \/ web_add_expense(DomValidate)
    \/ web_edit_expense(DomValidate)
    \/ expenses_page(DomValidate)
    \/ monthly_report(DomValidate)
    \/ show_monthly_report(DomValidate)
    \/ export_to_pdf_monthly(DomValidate)

SpecValidate == Init /\ [][NextValidate]_vars

----------------------------------------------------------------------------
(* Concurrent web requests *)

DomRace ==
    [users |-> {AdminId},
     amounts |-> {1, 2},
     descs |-> {Taxi},
     formcats |-> {Food},
     formdates |-> {None},
     years |-> {2025},
     months |-> {1}]

\* C25: the per-category rows and the overall row of a monthly report
\* describe one and the same set of records, whatever requests of the same
\* owner ran while the report was being computed: the counts of the rows add
\* up to the overall count and their totals to the overall total.
C25_ReportFromOneSnapshot ==
    (resp.op = "monthly_report" /\ resp.status = "ok")
    => /\ SumField(resp.out.category_stats, "count") = resp.out.overall.count
       /\ SumField(resp.out.category_stats, "total") = OrZero(resp.out.overall.total)

\* C26: a delete or edit request reports success only if its own DELETE or
\* UPDATE removed or changed a record of the requested id; otherwise it
\* reports that the record was not found.
C26_SuccessOnlyIfRowAffected ==
    [][(inflight' # inflight /\ inflight' \subseteq inflight
        /\ resp'.op \in {"web_delete", "web_edit"} /\ resp'.status = "success")
       => \E r \in store :
             /\ r.id = resp'.req.id
             /\ r.user_id = resp'.user
             /\ resp'.op = "web_delete" => r \notin store']_vars

NextRace ==
    \/ login(DomRace)
    \/ web_add_expense(DomRace)
    \/ monthly_report_category_stats(DomRace)
    \/ monthly_report_overall
    \/ delete_expense_select
    \/ delete_expense_delete
    \/ edit_expense_select(DomRace)
    \/ edit_expense_update

SpecRace == Init /\ [][NextRace]_vars

----------------------------------------------------------------------------
(* The command-line views against the table *)

DomStale ==
    [users |-> {AdminId},
     amounts |-> {1, 2},
     descs |-> {Taxi, Bus},
     choices |-> {1},
     catinputs |-> {Some(1)},
     editchoices |-> {"1"},
     amountinputs |-> {Some(3)},
     descinputs |-> {None},
     formcats |-> {Food},
     formdates |-> {None}]

\* the records of the table as the command-line program lists them
Listed(S) == {LoadRow(r) : r \in S}

\* the elements of a sequence
Range(sq) == {sq[i] : i \in 1..Len(sq)}

\* what a view of the command-line program has just reported is what the
\* table holds
ViewIsCurrent ==
    /\ resp.op \in {"view_all", "view_total"}
       => IF resp.status = "no_expenses" THEN store = {}
          ELSE /\ Range(resp.out.rows) = Listed(store)
               /\ Len(resp.out.rows) = Cardinality(store)
    /\ (resp.op = "view_total" /\ resp.status = "shown")
       => resp.out.total = SumAmounts(store)
    /\ resp.op = "view_by_category"
       => IF resp.status = "no_expenses" THEN store = {}
          ELSE Range(resp.out.rows)
                 = Listed({r \in store : r.category = CATEGORIES[resp.req.choice[1]]})

\* C27: every listing and total of the command-line program is computed from
\* what the table holds at that moment, after any sequence of command-line
\* and web writes, and a command-line edit of the amount alone leaves the
\* description and the category of the record in the table as they were.
C27_ViewsFromStore ==
    [][/\ ViewIsCurrent'
       /\ (resp'.op = "cli_edit" /\ resp'.status = "updated"
           /\ resp'.req.edit_choice = "1")
          => \A r \in store : \A r2 \in store' :
                r2.id = r.id
                => (r2.description = r.description /\ r2.category = r.category)]_vars

NextStale ==
    \/ main_add(DomStale)
    \/ cli_edit_expense(DomStale)
    \/ login(DomStale)
    \/ web_add_expense(DomStale)
    \/ web_edit_expense(DomStale)
    \/ view_all
    \/ view_by_category(DomStale)
    \/ view_total

SpecStale == Init /\ [][NextStale]_vars

----------------------------------------------------------------------------
(* The web reports against the reports of the command-line program *)

\* the monthly report of the command-line program under the field names of
\* the web page
AsWebMonthly(report) ==
    [category_stats |-> report.category_stats, overall |-> report.overall_stats]

SingleOwner(S, u) == \A r \in S : r.user_id = u

\* C28: over a table whose records all belong to one owner, the web monthly
\* report has the per-category rows and the overall row of the command-line
\* monthly report of that year and month, and the web yearly report the
\* twelve monthly entries and the totals of the command-line yearly summary.
C28_WebReportsMatchCli ==
    \A u \in DomReport.users :
        SingleOwner(store, u) =>
            /\ \A year \in DomReport.years, month \in 1..12 :
                  MonthlyResults(store, u, year, month)
                    = {AsWebMonthly(report) :
                         report \in generate_monthly_report(store, year, month)}
            /\ \A year \in DomReport.years :
                  \A out \in YearlyResults(store, u, year) :
                      /\ out.monthly_data = generate_yearly_summary(store, year)
                      /\ Len(out.monthly_data) = 12
            /\ (CliMonthly(resp) /\ resp.req.month[1] \in 1..12)
               => [category_stats |-> resp.out.category_stats,
                   overall |-> resp.out.overall_stats]
                    \in MonthlyResults(store, u, resp.req.year[1], resp.req.month[1])
            /\ (resp.op = "show_yearly_summary" /\ resp.status # "invalid_input")
               => \E out \in YearlyResults(store, u, resp.req.year[1]) :
                     /\ out.monthly_data = resp.out.monthly_totals
                     /\ out.yearly_total = resp.out.yearly_total
                     /\ out.yearly_count = resp.out.yearly_count

C28_Witness ==
    /\ resp.op = "show_monthly_report"
    /\ resp.status = "shown"
    /\ SingleOwner(store, AdminId)
    /\ Len(resp.out.category_stats) = 2
    /\ resp.out.overall_stats.minimum # resp.out.overall_stats.maximum
    /\ AsWebMonthly(resp.out)
         \in MonthlyResults(store, AdminId, resp.req.year[1], resp.req.month[1])

----------------------------------------------------------------------------
(* Deleting from the command-line program *)

\* C29: a command-line delete with a valid number k removes the record
\* listed at position k, and nothing else, from the table and from the
\* list; with 0, a number out of range or an input that is not a number
\* the table and the list stay as they were.
C29_CliDeleteFrame ==
    [][resp'.op = "cli_delete" =>
        IF resp'.status = "deleted"
        THEN LET k == resp'.req.choice[1]
             IN  /\ k \in 1..Len(expenses)
                 /\ resp'.out = expenses[k]
                 /\ store' = {r \in store : r.id # expenses[k].id}
                 /\ Len(expenses') = Len(expenses) - 1
                 /\ \A i \in 1..Len(expenses') :
                       expenses'[i] = IF i < k THEN expenses[i] ELSE expenses[i + 1]
        ELSE /\ store' = store
             /\ expenses' = expenses
             /\ \/ resp'.status = "no_expenses" /\ Len(expenses) = 0
                \/ resp'.status = "not_a_number" /\ resp'.req.choice = None
                \/ resp'.status = "cancelled" /\ resp'.req.choice = Some(0)
                \/ /\ resp'.status = "invalid_number"
                   /\ resp'.req.choice[1] \notin 0..Len(expenses)
      ]_vars

C29_Witness ==
    /\ resp.op = "cli_delete"
    /\ resp.status = "deleted"
    /\ resp.req.choice = Some(1)
    /\ Len(expenses) = 1
    /\ resp.out.id \notin Ids(store)
    /\ resp.out.id # expenses[1].id
    /\ \E r \in store : r.id = expenses[1].id

----------------------------------------------------------------------------
(* Authentication of the web routes *)

ExpenseRoutes == WebQueryOps \cup WebWriteOps

\* C30: a request to a route that touches expenses made without a login is
\* turned away with nothing read and nothing written; made with a login, it
\* reads only the records of the logged-in user and adds, changes or
\* removes only records owned by that user.
C30_ExpenseRoutesNeedLogin ==
    [][resp'.op \in ExpenseRoutes =>
        IF session = NoUser
        THEN /\ resp'.status = "login_required"
             /\ resp'.out = None
             /\ store' = store
        ELSE /\ resp'.user = session
             /\ resp'.status # "login_required"
             /\ \A r \in store \ store' : r.user_id = session
             /\ \A r \in store' \ store : r.user_id = session
             /\ (resp'.op \in WebQueryOps /\ resp'.status = "ok")
                => resp'.out \in WebQueryResults(resp'.op, resp'.req,
                                                 OwnedBy(store, session),
                                                 session, now)
      ]_vars

C30_Witness ==
    /\ resp.op \in ExpenseRoutes
    /\ resp.status = "login_required"
    /\ session = NoUser
    /\ store # {}

====
